---- MODULE Spec2Model ----
(***************************************************************************)
(* dirrotate: cull a directory tree to a maximum size.                     *)
(*                                                                         *)
(* The model follows src/src/main.rs and src/src/matching.rs.  One run of  *)
(* main() is split at its phases (setup, scan + scope filter, size, filter *)
(* for deletion, sort, register_operations, perform).  The file system is  *)
(* a tree of nodes; a path is identified with the node it names.  A glob   *)
(* pattern is represented by whether it compiles and by the set of paths   *)
(* it matches.  An Option<T> is a set with at most one element.            *)
(***************************************************************************)
EXTENDS Integers, Sequences, FiniteSets

VARIABLES fs, fs0, settings, pc, matchers, scanned, files, size_to_free,
          deletable, operations, reported, run, prev_operations

vars == <<fs, fs0, settings, pc, matchers, scanned, files, size_to_free,
          deletable, operations, reported, run, prev_operations>>

(* ------------------------------ bounds --------------------------------- *)

\* Number of directory entries below the root.
MaxFiles == 3

Nodes == 1..MaxFiles

\* The root directory (depth 0 of the walk).
Root == 0

\* File sizes in bytes, modification times, and values of max_size.
Sizes == {0, 1, 2}
Times == {1, 2}
Budgets == {0, 2, 4}

\* Entry names: a visible one and a hidden one.
Names == {<<"f">>, <<".", "f">>}

(* ------------------------------ helpers -------------------------------- *)

None == {}

Some(x) == {x}

Unwrap(opt) == CHOOSE x \in opt : TRUE

Range(s) == {s[i] : i \in 1..Len(s)}

\* The orders in which read_dir may return the entries: a ranking of the nodes.
Orders == {o \in [Nodes -> Nodes] : \A i, j \in Nodes : i # j => o[i] # o[j]}

RECURSIVE SumLen(_)
\* files.iter().map(|f| f.1.len()).sum()
SumLen(entries) ==
    IF entries = <<>> THEN 0 ELSE Head(entries).len + SumLen(Tail(entries))

saturating_sub_wrong(a, b) == IF a >= b THEN a - b ELSE b - a

\* u64::saturating_sub
saturating_sub(a, b) == IF a >= b THEN a - b ELSE 0

(* ------------------------------ matching.rs ---------------------------- *)

\* glob(&pattern).expect(..) panics on a pattern that does not compile.
PatternsValid(s) ==
    \A p \in s.include_only \cup s.exclude \cup s.select_for_op \cup s.protect_from_op :
        p.valid

\* get_path_matcher: Option<String> -> Option<matcher>; a matcher is the set
\* of canonical paths its glob matches.
get_path_matcher(pattern) == {p.matches : p \in pattern}

(* ------------------------------ list_all_files ------------------------- *)

\* entry.file_name().to_str().map(|s| s.starts_with(".")).unwrap_or(false)
is_hidden(name) == Len(name) > 0 /\ name[1] = "."

\* Path::is_file()
is_file(f, n) == n \in DOMAIN f /\ f[n].kind = "file"

\* The entries of directory d in the order read_dir returns them.
read_dir(f, d, ord) ==
    SelectSeq(ord, LAMBDA n : n \in DOMAIN f /\ f[n].parent = d)

RECURSIVE WalkNoPrune(_, _, _)
WalkNoPrune(f, cs, ord) ==
    IF cs = <<>> THEN <<>>
    ELSE LET c == Head(cs)
             below == IF f[c].kind = "dir"
                      THEN WalkNoPrune(f, read_dir(f, c, ord), ord) ELSE <<>>
             here == IF is_hidden(f[c].name) THEN below ELSE <<c>> \o below
         IN  here \o WalkNoPrune(f, Tail(cs), ord)

RECURSIVE Walk(_, _, _)
\* WalkDir::new(path).min_depth(1).into_iter().filter_entry(|e| !is_hidden(e)):
\* depth-first, a hidden entry is skipped and, when a directory, not entered.
Walk(f, cs, ord) ==
    IF cs = <<>> THEN <<>>
    ELSE LET c == Head(cs)
             here == IF is_hidden(f[c].name) THEN <<>>
                     ELSE <<c>> \o (IF f[c].kind = "dir"
                                    THEN Walk(f, read_dir(f, c, ord), ord)
                                    ELSE <<>>)
         IN  here \o Walk(f, Tail(cs), ord)

\* (DirEntry, Metadata)
Entry(f, n) == [path |-> n, len |-> f[n].size, modified |-> f[n].mtime]

list_all_files(f, ord) ==
    LET walked == Walk(f, read_dir(f, Root, ord), ord)
        kept == SelectSeq(walked, LAMBDA n : is_file(f, n))
    IN  [i \in 1..Len(kept) |-> Entry(f, kept[i])]

(* ------------------------------ file_filter ---------------------------- *)

file_filter_select_negated(f, items, select_pattern, protect_pattern) ==
    SelectSeq(items, LAMBDA x :
        IF select_pattern # None
        THEN x.path \notin Unwrap(select_pattern) /\ is_file(f, x.path)
        ELSE IF protect_pattern # None
        THEN x.path \notin Unwrap(protect_pattern) /\ is_file(f, x.path)
        ELSE is_file(f, x.path))

file_filter_no_negation(f, items, select_pattern, protect_pattern) ==
    SelectSeq(items, LAMBDA x :
        IF select_pattern # None
        THEN x.path \in Unwrap(select_pattern) /\ is_file(f, x.path)
        ELSE IF protect_pattern # None
        THEN x.path \in Unwrap(protect_pattern) /\ is_file(f, x.path)
        ELSE is_file(f, x.path))

file_filter(f, items, select_pattern, protect_pattern) ==
    SelectSeq(items, LAMBDA x :
        IF select_pattern # None
        THEN x.path \in Unwrap(select_pattern) /\ is_file(f, x.path)
        ELSE IF protect_pattern # None
        THEN x.path \notin Unwrap(protect_pattern) /\ is_file(f, x.path)
        ELSE is_file(f, x.path))

(* ------------------------------ sort ----------------------------------- *)

RECURSIVE InsertByKey(_, _)
\* Insert e after every element whose key is <= its own (stable).
InsertByKey(sorted, e) ==
    IF sorted = <<>> THEN <<e>>
    ELSE IF Head(sorted).modified <= e.modified
         THEN <<Head(sorted)>> \o InsertByKey(Tail(sorted), e)
         ELSE <<e>> \o sorted

RECURSIVE SortFrom(_, _)
SortFrom(sorted, rest) ==
    IF rest = <<>> THEN sorted
    ELSE SortFrom(InsertByKey(sorted, Head(rest)), Tail(rest))

sort_by_key_unsorted(entries) == entries

\* deletable.sort_by_key(|x| x.1.modified()): stable, ascending.
sort_by_key(entries) == SortFrom(<<>>, entries)

(* ------------------------------ register_operations -------------------- *)

RECURSIVE RegisterLoop(_, _, _, _)
RegisterLoop(entries, size_freed, ops, to_free) ==
    IF size_freed < to_free /\ Len(entries) > 0
    THEN LET e == entries[Len(entries)]
         IN  RegisterLoop(SubSeq(entries, 1, Len(entries) - 1),
                          size_freed + e.len, Append(ops, e.path), to_free)
    ELSE ops

RECURSIVE RegisterLoopInclusive(_, _, _, _)
RegisterLoopInclusive(entries, size_freed, ops, to_free) ==
    IF size_freed <= to_free /\ Len(entries) > 0
    THEN LET e == entries[Len(entries)]
         IN  RegisterLoopInclusive(SubSeq(entries, 1, Len(entries) - 1),
                                   size_freed + e.len, Append(ops, e.path), to_free)
    ELSE ops

RECURSIVE RegisterLoopKeepOne(_, _, _, _)
RegisterLoopKeepOne(entries, size_freed, ops, to_free) ==
    IF size_freed < to_free /\ Len(entries) > 1
    THEN LET e == entries[Len(entries)]
         IN  RegisterLoopKeepOne(SubSeq(entries, 1, Len(entries) - 1),
                                 size_freed + e.len, Append(ops, e.path), to_free)
    ELSE ops

register_operations_inclusive(entries, to_free) ==
    RegisterLoopInclusive(entries, 0, <<>>, to_free)

register_operations_keep_one(entries, to_free) ==
    RegisterLoopKeepOne(entries, 0, <<>>, to_free)

register_operations(entries, to_free) == RegisterLoop(entries, 0, <<>>, to_free)

(* ------------------------------ perform -------------------------------- *)

perform_operations_deleting(f, ops, dryrun) ==
    [n \in DOMAIN f \ Range(ops) |-> f[n]]

\* main, lines 189-196: the file system after the operations are performed.
perform_operations(f, ops, dryrun) == f

\* The "Deleting file: .." lines logged for the operations.
report_operations(ops, dryrun) == IF dryrun THEN ops ELSE <<>>

(* ------------------------------ initial states ------------------------- *)

\* The file system: each node's parent, name, kind, size and modification time.
MkFs(parent, name, kind, size, mtime) ==
    [n \in Nodes |-> [parent |-> parent[n], name |-> name[n], kind |-> kind[n],
                      size |-> size[n], mtime |-> mtime[n]]]

\* Every entry lies in the root or in a directory created before it.
WellFormed(parent, kind) ==
    \A n \in Nodes :
        /\ parent[n] < n
        /\ parent[n] # Root => kind[parent[n]] = "dir"

\* Directory trees: nesting, hidden names and kinds vary; one size and time.
Trees ==
    {MkFs(t[1], t[2], t[3], [n \in Nodes |-> 1], [n \in Nodes |-> 1]) :
        t \in {u \in [Nodes -> {Root} \cup Nodes] \X [Nodes -> Names]
                        \X [Nodes -> {"file", "dir"}] : WellFormed(u[1], u[3])}}

\* Flat directories of visible regular files: sizes and times vary.
FlatDirs ==
    {MkFs([n \in Nodes |-> Root], [n \in Nodes |-> <<"f">>],
          [n \in Nodes |-> "file"], t[1], t[2]) :
        t \in [Nodes -> Sizes] \X [Nodes -> Times]}

\* A flat directory of one-byte files whose times alternate.
UniformDir ==
    MkFs([n \in Nodes |-> Root], [n \in Nodes |-> <<"f">>],
         [n \in Nodes |-> "file"], [n \in Nodes |-> 1],
         [n \in Nodes |-> (n % 2) + 1])

Patterns == [valid : {TRUE}, matches : SUBSET Nodes]
                \cup {[valid |-> FALSE, matches |-> {}]}

\* clap: exclude conflicts_with include-only, protect-from-op conflicts_with
\* select-for-op: of each pair of patterns at most one is given.
PatternPairs ==
    {<<None, None>>} \cup {<<Some(p), None>> : p \in Patterns}
                     \cup {<<None, Some(p)>> : p \in Patterns}

MkSettings(max_size, dryrun, scope, op) ==
    [max_size |-> max_size, dryrun |-> dryrun,
     include_only |-> scope[1], exclude |-> scope[2],
     select_for_op |-> op[1], protect_from_op |-> op[2]]

AllSettings ==
    {MkSettings(t[1], t[2], t[3], t[4]) :
        t \in Budgets \X BOOLEAN \X PatternPairs \X PatternPairs}

\* No pattern is given.
PlainSettings ==
    {MkSettings(t[1], t[2], <<None, None>>, <<None, None>>) :
        t \in Budgets \X BOOLEAN}

NoMatchers ==
    [include_only |-> None, exclude |-> None, select |-> None, protect |-> None]

Fresh ==
    /\ pc = "start"
    /\ matchers = NoMatchers
    /\ scanned = <<>>
    /\ files = <<>>
    /\ size_to_free = 0
    /\ deletable = <<>>
    /\ operations = <<>>
    /\ reported = <<>>

Init ==
    /\ \/ fs \in Trees \cup FlatDirs /\ settings \in PlainSettings
       \/ fs = UniformDir /\ settings \in AllSettings
    /\ fs0 = fs
    /\ Fresh
    /\ run = "first"
    /\ prev_operations = <<>>

(* ------------------------------ main ----------------------------------- *)

\* Lines 136-155: parse the settings and compile the four glob patterns.
Setup ==
    /\ pc = "start"
    /\ IF PatternsValid(settings)
       THEN /\ matchers' = [include_only |-> get_path_matcher(settings.include_only),
                            exclude |-> get_path_matcher(settings.exclude),
                            select |-> get_path_matcher(settings.select_for_op),
                            protect |-> get_path_matcher(settings.protect_from_op)]
            /\ pc' = "ready"
       ELSE /\ matchers' = matchers
            /\ pc' = "panicked"
    /\ UNCHANGED <<fs, fs0, settings, scanned, files, size_to_free, deletable,
                   operations, reported, run, prev_operations>>

\* Lines 157-163: walk the directory and keep the files in scope.
Scan ==
    /\ pc = "ready"
    /\ \E ord \in Orders :
        /\ scanned' = list_all_files(fs, ord)
        /\ files' = file_filter(fs, scanned', matchers.include_only, matchers.exclude)
    /\ pc' = "listed"
    /\ UNCHANGED <<fs, fs0, settings, matchers, size_to_free, deletable,
                   operations, reported, run, prev_operations>>

\* Lines 165-172: the size to free, and the early out when it is zero.
ComputeSize ==
    /\ pc = "listed"
    /\ size_to_free' = saturating_sub(SumLen(files), settings.max_size)
    /\ pc' = IF size_to_free' = 0 THEN "done" ELSE "sized"
    /\ UNCHANGED <<fs, fs0, settings, matchers, scanned, files, deletable,
                   operations, reported, run, prev_operations>>

\* Lines 174-176: the files available for deletion.
FilterDeletable ==
    /\ pc = "sized"
    /\ deletable' = file_filter(fs, files, matchers.select, matchers.protect)
    /\ pc' = "filtered"
    /\ UNCHANGED <<fs, fs0, settings, matchers, scanned, files, size_to_free,
                   operations, reported, run, prev_operations>>

\* Lines 177-185: sort the deletable files on last_modified.
SortDeletable ==
    /\ pc = "filtered"
    /\ deletable' = sort_by_key(deletable)
    /\ pc' = "sorted"
    /\ UNCHANGED <<fs, fs0, settings, matchers, scanned, files, size_to_free,
                   operations, reported, run, prev_operations>>

\* Lines 187-188.
Register ==
    /\ pc = "sorted"
    /\ operations' = register_operations(deletable, size_to_free)
    /\ pc' = "registered"
    /\ UNCHANGED <<fs, fs0, settings, matchers, scanned, files, size_to_free,
                   deletable, reported, run, prev_operations>>

\* Lines 189-197.
Perform ==
    /\ pc = "registered"
    /\ fs' = perform_operations(fs, operations, settings.dryrun)
    /\ reported' = report_operations(operations, settings.dryrun)
    /\ pc' = "done"
    /\ UNCHANGED <<fs0, settings, matchers, scanned, files, size_to_free,
                   deletable, operations, run, prev_operations>>

\* A dry run is repeated with the same configuration on the same tree.
Rerun ==
    /\ pc = "done"
    /\ run = "first"
    /\ settings.dryrun
    /\ run' = "second"
    /\ prev_operations' = operations
    /\ pc' = "start"
    /\ matchers' = NoMatchers
    /\ scanned' = <<>>
    /\ files' = <<>>
    /\ size_to_free' = 0
    /\ deletable' = <<>>
    /\ operations' = <<>>
    /\ reported' = <<>>
    /\ UNCHANGED <<fs, fs0, settings>>

Next ==
    \/ Setup
    \/ Scan
    \/ ComputeSize
    \/ FilterDeletable
    \/ SortDeletable
    \/ Register
    \/ Perform
    \/ Rerun

Spec == Init /\ [][Next]_vars

(* ------------------------------ properties ----------------------------- *)

Paths(entries) == {entries[i].path : i \in 1..Len(entries)}

NoDuplicates(s) == \A i, j \in 1..Len(s) : i # j => s[i] # s[j]

StartsWithDot(name) == name # <<>> /\ Head(name) = "."

RECURSIVE UnderHidden(_, _)
\* Some directory between the root and node n has a hidden name.
UnderHidden(f, n) ==
    LET p == f[n].parent
    IN  p # Root /\ (StartsWithDot(f[p].name) \/ UnderHidden(f, p))

\* The regular files the scan is to yield.
Visible(f) ==
    {n \in DOMAIN f :
        f[n].kind = "file" /\ ~StartsWithDot(f[n].name) /\ ~UnderHidden(f, n)}

\* What a pair of optional patterns keeps: the first decides when given,
\* else the second excludes when given, else everything is kept.
Keeps(first, second, path) ==
    IF first # None THEN path \in Unwrap(first).matches
    ELSE IF second # None THEN path \notin Unwrap(second).matches
    ELSE TRUE

InScope(path) == Keeps(settings.include_only, settings.exclude, path)

Eligible(path) == Keeps(settings.select_for_op, settings.protect_from_op, path)

RECURSIVE SizeOfSet(_, _)
SizeOfSet(f, S) ==
    IF S = {} THEN 0
    ELSE LET n == CHOOSE m \in S : TRUE IN f[n].size + SizeOfSet(f, S \ {n})

\* Total size of the files of a plan.
PlanSize(ops) == SizeOfSet(fs0, Range(ops))

ScopeSize == SizeOfSet(fs0, {n \in Visible(fs0) : InScope(n)})

Front(s) == SubSeq(s, 1, Len(s) - 1)

HasScanned == pc \in {"listed", "sized", "filtered", "sorted", "registered", "done"}

HasFiltered == pc \in {"filtered", "sorted", "registered"} \/ (pc = "done" /\ size_to_free > 0)

HasPlanned == pc = "registered" \/ (pc = "done" /\ size_to_free > 0)

DistinctTimes(entries) ==
    \A i, j \in 1..Len(entries) : i # j => entries[i].modified # entries[j].modified

\* C1: the plan takes the eligible files oldest first: it is ordered by
\* non-decreasing modification time and no eligible file left out of the plan
\* is strictly older than a file in the plan.
C1_OldestFirstPrefix ==
    HasPlanned =>
        /\ \A i, j \in 1..Len(operations) :
               i < j => fs0[operations[i]].mtime <= fs0[operations[j]].mtime
        /\ \A p \in Range(operations) :
               \A d \in Paths(deletable) \ Range(operations) :
                   ~(fs0[d].mtime < fs0[p].mtime)

\* C2: the plan reaches size_to_free or takes the whole eligible set, and
\* without its last file it is below size_to_free.
C2_MinimalPlan ==
    HasPlanned =>
        /\ NoDuplicates(operations)
        /\ Range(operations) \subseteq Paths(deletable)
        /\ PlanSize(operations) >= size_to_free
               \/ Range(operations) = Paths(deletable)
        /\ operations # <<>> => PlanSize(Front(operations)) < size_to_free

C2_Witness ==
    /\ HasPlanned
    /\ Len(operations) = 2
    /\ Len(deletable) = 3
    /\ PlanSize(operations) > size_to_free
    /\ \E p \in Range(operations) : fs0[p].size = 0

\* C3: after a live run with a non-empty plan every planned file is gone
\* from the file system.
C3_LiveRunDeletes ==
    (pc = "done" /\ ~settings.dryrun /\ operations # <<>>) =>
        \A p \in Range(operations) : p \notin DOMAIN fs

\* C4 as stated: every scanned file that passes the select / protect filter
\* is in the eligible set, in scope or not.
C4_EligibleIgnoresScope ==
    HasFiltered =>
        \A n \in Visible(fs0) : Eligible(n) => n \in Paths(deletable)

\* C4 as amended: the eligible set is the files in scope that pass the
\* select / protect filter; a file out of scope is never eligible or planned.
C4_EligibleWithinScope ==
    HasFiltered =>
        /\ Paths(deletable) = {n \in Visible(fs0) : InScope(n) /\ Eligible(n)}
        /\ \A p \in Range(operations) : InScope(p) /\ Eligible(p)

C4_Witness ==
    /\ pc = "registered"
    /\ operations # <<>>
    /\ \E n \in Visible(fs0) : Eligible(n) /\ ~InScope(n)
    /\ \E n \in Visible(fs0) : InScope(n) /\ ~Eligible(n)

\* C5: size_to_free is max(0, size of the scope - max_size), and when it is
\* zero the run ends with an empty plan, nothing reported and nothing deleted.
C5_SizeToFree ==
    pc \in {"sized", "filtered", "sorted", "registered", "done"} =>
        LET total == ScopeSize
        IN  /\ size_to_free = IF total > settings.max_size
                              THEN total - settings.max_size ELSE 0
            /\ settings.max_size >= total =>
                   /\ pc = "done"
                   /\ deletable = <<>>
                   /\ operations = <<>>
                   /\ reported = <<>>
                   /\ fs = fs0

C5_Witness ==
    /\ pc = "done"
    /\ ~settings.dryrun
    /\ ScopeSize > 0
    /\ settings.max_size > ScopeSize
    /\ \E n \in Visible(fs0) : InScope(n) /\ Eligible(n)

\* C6: a dry run leaves the file system as it was at the start, and reports
\* the paths of the plan in plan order and nothing else.
C6_DryRunKeepsFiles ==
    settings.dryrun =>
        /\ fs = fs0
        /\ reported = IF pc = "done" THEN operations ELSE <<>>

C6_Witness ==
    /\ settings.dryrun
    /\ pc = "done"
    /\ Len(operations) >= 2
    /\ reported = operations

Position(s, e) == CHOOSE k \in 1..Len(s) : s[k] = e

\* The output of a filter: the kept entries of the input, in input order.
FilterResult(input, output, first, second) ==
    /\ NoDuplicates(output)
    /\ Range(output) = {e \in Range(input) : Keeps(first, second, e.path)}
    /\ \A i \in 1..(Len(output) - 1) :
           Position(input, output[i]) < Position(input, output[i + 1])

C8_ScanSkipsHidden ==
    HasScanned =>
        LET visible == Visible(fs0)
        IN  /\ NoDuplicates(scanned)
            /\ Range(scanned) = {Entry(fs0, n) : n \in visible}
            /\ Paths(files) \subseteq visible
            /\ Range(operations) \subseteq visible
            /\ pc # "listed" => size_to_free <= SizeOfSet(fs0, visible)

C8_Witness ==
    /\ pc = "registered"
    /\ operations # <<>>
    /\ \E d, n \in Nodes :
           /\ fs0[n].parent = d
           /\ fs0[d].kind = "dir"
           /\ StartsWithDot(fs0[d].name)
           /\ fs0[n].kind = "file"
           /\ ~StartsWithDot(fs0[n].name)
           /\ n \notin Paths(scanned)

\* C9 as stated: a second dry run with an unmet budget plans what the first
\* did.
C9_SamePlanTwice ==
    (run = "second" /\ pc = "done" /\ settings.dryrun /\ size_to_free > 0) =>
        operations = prev_operations

\* C9 as amended: the two plans are the same when the eligible files have
\* pairwise distinct modification times.
C9_SamePlanDistinctTimes ==
    (run = "second" /\ pc = "done" /\ settings.dryrun /\ size_to_free > 0
        /\ DistinctTimes(deletable)) =>
        operations = prev_operations

C9_Witness ==
    /\ run = "second"
    /\ pc = "done"
    /\ settings.dryrun
    /\ size_to_free > 0
    /\ DistinctTimes(deletable)
    /\ Len(operations) >= 2
    /\ operations = prev_operations
    /\ \E i, j \in 1..Len(scanned) :
           i < j /\ scanned[i].modified > scanned[j].modified

\* C10: an eligible set smaller than size_to_free is planned whole and the
\* run goes on; when the protect pattern matches every file the plan is
\* empty; only a pattern that does not compile stops a run.
C10_InsufficientEligibleSet ==
    /\ HasPlanned =>
           /\ SumLen(deletable) < size_to_free =>
                  /\ Len(operations) = Len(deletable)
                  /\ Range(operations) = Paths(deletable)
           /\ (settings.protect_from_op # None
                  /\ Visible(fs0) \subseteq Unwrap(settings.protect_from_op).matches) =>
                  deletable = <<>> /\ operations = <<>>
    /\ pc = "panicked" => ~PatternsValid(settings)

C10_Witness ==
    /\ pc = "done"
    /\ Len(deletable) >= 2
    /\ SumLen(deletable) < size_to_free
    /\ Len(operations) = Len(deletable)

====
